---- MODULE Spec2Model ----
(***************************************************************************)
(* Model of the on-hands inventory tool (src/onhands/__init__.py and       *)
(* src/onhands/cli.py): the Quantity / Aprimon / Collection values with     *)
(* their arithmetic, the Google-sheet row codec, and the add / rm commands  *)
(* that read the sheet, combine it with the parsed input and write it back. *)
(*                                                                         *)
(* Python strings are TLA+ strings; a character is a string of length 1.    *)
(* Three non-ASCII characters of the source are written with ASCII         *)
(* stand-ins: "@" is U+00C3, "&" is U+00E3 (the lower case of U+00C3) and   *)
(* "#" is U+00A9 (which has no case).                                       *)
(***************************************************************************)
EXTENDS Integers, Sequences, FiniteSets, TLC

\* ------------------------------------------------------------------------
\* Global configuration (src/onhands/__init__.py:13-21)
\* ------------------------------------------------------------------------
N_HEADER_ROWS == 3
BALL_COL == 0
SPECIES_COL == 1
SWSH1_COL == 9
SWSH2_COL == 10
SV1_COL == 11
SV2_COL == 12
BDSP_COL == 13
LAST_COL == BDSP_COL

\* ------------------------------------------------------------------------
\* Python built-ins on str and int, computed character by character
\* ------------------------------------------------------------------------
Char(s, i) == SubSeq(s, i, i)

UpperLetters == "ABCDEFGHIJKLMNOPQRSTUVWXYZ@"
LowerLetters == "abcdefghijklmnopqrstuvwxyz&"
Digits == "0123456789"

RECURSIVE IndexIn(_, _, _)
\* 1-based position of character ch in alphabet at or after position i, 0 if absent
IndexIn(ch, alphabet, i) ==
    IF i > Len(alphabet) THEN 0
    ELSE IF Char(alphabet, i) = ch THEN i
    ELSE IndexIn(ch, alphabet, i + 1)

\* the characters of alphabet, each mapped to its 1-based position
Positions(alphabet) ==
    [ch \in {Char(alphabet, i) : i \in 1..Len(alphabet)} |-> IndexIn(ch, alphabet, 1)]

UpperPos == Positions(UpperLetters)
LowerPos == Positions(LowerLetters)
DigitPos == Positions(Digits)

\* str.lower() on one character
LowerChar(ch) == IF ch \in DOMAIN UpperPos THEN Char(LowerLetters, UpperPos[ch]) ELSE ch

\* str.upper() on one character
UpperChar(ch) == IF ch \in DOMAIN LowerPos THEN Char(UpperLetters, LowerPos[ch]) ELSE ch

RECURSIVE Lower(_)
\* str.lower()
Lower(s) == IF s = "" THEN "" ELSE LowerChar(Head(s)) \o Lower(Tail(s))

\* str.startswith(p)
StartsWith(s, p) == Len(p) <= Len(s) /\ SubSeq(s, 1, Len(p)) = p

RECURSIVE Replace(_, _, _)
\* str.replace(old, new): leftmost non-overlapping occurrences (old is non-empty)
Replace(s, old, new) ==
    IF Len(s) < Len(old) THEN s
    ELSE IF StartsWith(s, old)
         THEN new \o Replace(SubSeq(s, Len(old) + 1, Len(s)), old, new)
         ELSE Head(s) \o Replace(Tail(s), old, new)

RECURSIVE SplitOn(_, _, _)
\* str.split(sep) for a one-character sep; cur is the segment being collected
SplitOn(s, sep, cur) ==
    IF s = "" THEN <<cur>>
    ELSE IF Head(s) = sep THEN <<cur>> \o SplitOn(Tail(s), sep, "")
    ELSE SplitOn(Tail(s), sep, cur \o Head(s))

RECURSIVE Join(_, _)
\* sep.join(words)
Join(sep, words) ==
    IF Len(words) = 0 THEN ""
    ELSE IF Len(words) = 1 THEN words[1]
    ELSE words[1] \o sep \o Join(sep, Tail(words))

IsSpace(ch) == ch = " "

RECURSIVE LStrip(_)
LStrip(s) == IF s # "" /\ IsSpace(Head(s)) THEN LStrip(Tail(s)) ELSE s

RECURSIVE RStrip(_)
RStrip(s) ==
    IF s # "" /\ IsSpace(Char(s, Len(s))) THEN RStrip(SubSeq(s, 1, Len(s) - 1)) ELSE s

\* str.strip()
Strip(s) == LStrip(RStrip(s))

RECURSIVE Words(_, _)
\* str.split() with no separator: maximal runs of non-space characters
Words(s, cur) ==
    IF s = "" THEN (IF cur = "" THEN <<>> ELSE <<cur>>)
    ELSE IF IsSpace(Head(s))
         THEN (IF cur = "" THEN <<>> ELSE <<cur>>) \o Words(Tail(s), "")
         ELSE Words(Tail(s), cur \o Head(s))

RECURSIVE FirstSpace(_, _)
\* position of the first space of s at or after i, 0 if there is none
FirstSpace(s, i) ==
    IF i > Len(s) THEN 0
    ELSE IF IsSpace(Char(s, i)) THEN i
    ELSE FirstSpace(s, i + 1)

\* str.split(maxsplit=1): the first word and the rest without its leading spaces
SplitFirst(s) ==
    LET t == LStrip(s)
        i == FirstSpace(t, 1)
        rest == IF i = 0 THEN "" ELSE LStrip(SubSeq(t, i, Len(t)))
    IN  IF t = "" THEN <<>>
        ELSE IF i = 0 \/ rest = "" THEN <<RStrip(t)>>
        ELSE <<SubSeq(t, 1, i - 1), rest>>

RECURSIVE AllDigits(_)
AllDigits(s) == s = "" \/ (Head(s) \in DOMAIN DigitPos /\ AllDigits(Tail(s)))

RECURSIVE DigitsValue(_, _)
DigitsValue(s, acc) ==
    IF s = "" THEN acc
    ELSE DigitsValue(Tail(s), 10 * acc + (DigitPos[Head(s)] - 1))

\* int(s): surrounding spaces, an optional sign, then one or more digits
IsInt(s) ==
    LET t == Strip(s)
        body == IF t # "" /\ Head(t) \in {"+", "-"} THEN Tail(t) ELSE t
    IN  body # "" /\ AllDigits(body)

IntValue(s) ==
    LET t == Strip(s)
    IN  IF Head(t) = "-" THEN 0 - DigitsValue(Tail(t), 0)
        ELSE IF Head(t) = "+" THEN DigitsValue(Tail(t), 0)
        ELSE DigitsValue(t, 0)

RECURSIVE NatStr(_)
NatStr(n) ==
    IF n < 10 THEN Char(Digits, n + 1)
    ELSE NatStr(n \div 10) \o Char(Digits, (n % 10) + 1)

\* str(n) for an int
Str(n) == IF n < 0 THEN "-" \o NatStr(0 - n) ELSE NatStr(n)

\* Python's order on characters (code points), used by str comparison
CodePoints == " +-.0123456789ABCDEFGHIJKLMNOPQRSTUVWXYZabcdefghijklmnopqrstuvwxyz#@&"
CodePos == Positions(CodePoints)

RECURSIVE StrLess(_, _)
\* s < t on Python strings
StrLess(s, t) ==
    IF t = "" THEN FALSE
    ELSE IF s = "" THEN TRUE
    ELSE IF Head(s) = Head(t) THEN StrLess(Tail(s), Tail(t))
    ELSE CodePos[Head(s)] < CodePos[Head(t)]

\* ------------------------------------------------------------------------
\* Results of operations that may raise
\* ------------------------------------------------------------------------
Ok(v) == [ok |-> TRUE, val |-> v]
Raise(e) == [ok |-> FALSE, err |-> e]

\* ValueError(message): what names the message, about its arguments
ValueError(what, about) == [type |-> "ValueError", what |-> what, about |-> about]
IndexError == [type |-> "IndexError", what |-> "string index out of range", about |-> <<>>]

\* ------------------------------------------------------------------------
\* String manipulation functions (src/onhands/__init__.py:31-56)
\* ------------------------------------------------------------------------
\* capitalise_first raises IndexError on the empty string (s[0])
capitalise_first(s) == IF s = "o" THEN s ELSE UpperChar(Head(s)) \o Tail(s)

RECURSIVE CapitaliseAll(_)
CapitaliseAll(words) ==
    IF Len(words) = 0 THEN <<>>
    ELSE <<capitalise_first(words[1])>> \o CapitaliseAll(Tail(words))

CanonicaliseWords(species_name) ==
    SplitOn(Replace(Lower(species_name), "mr. mime", "mime"), "-", "")

\* canonicalise raises iff some hyphen-separated segment is empty
CanonicaliseRaises(species_name) ==
    LET words == CanonicaliseWords(species_name)
    IN  \E i \in 1..Len(words) : words[i] = ""

canonicalise(species_name) ==
    LET words == CanonicaliseWords(species_name)
        name == Join("-", CapitaliseAll(words))
        name2 == Replace(name, "Flabebe", "Flab@#b@#")
    IN  Replace(name2, "Mime", "Mr. Mime")

\* ------------------------------------------------------------------------
\* Game and Ball (src/onhands/__init__.py:76-132)
\* ------------------------------------------------------------------------
\* the members of the Game enum, in declared order
Game == <<"SWSH1", "SWSH2", "SV1", "SV2", "BDSP">>
GameSet == {Game[i] : i \in 1..Len(Game)}

parse_game(s) ==
    LET s2 == Lower(s)
    IN  IF s2 = "swsh1" THEN Ok("SWSH1")
        ELSE IF s2 = "swsh2" THEN Ok("SWSH2")
        ELSE IF s2 = "sv1" THEN Ok("SV1")
        ELSE IF s2 = "sv2" THEN Ok("SV2")
        ELSE IF s2 = "bdsp" THEN Ok("BDSP")
        ELSE Raise(ValueError("Could not parse game", <<s>>))

\* the values of the Ball enum, in declared order
Ball == <<"Beast", "Dream", "Fast", "Friend", "Heavy", "Level", "Love", "Lure",
          "Moon", "Safari", "Sport">>

\* parse_ball taking the first match when several names match
parse_ball_firstMatch(s) ==
    LET prefix == Lower(s)
        matching_balls == SelectSeq(Ball, LAMBDA b : StartsWith(Lower(b), prefix))
    IN  IF Len(matching_balls) = 0
        THEN Raise(ValueError("Could not parse ball", <<s>>))
        ELSE Ok(matching_balls[1])

parse_ball(s) ==
    LET prefix == Lower(s)
        matching_balls == SelectSeq(Ball, LAMBDA b : StartsWith(Lower(b), prefix))
    IN  IF Len(matching_balls) # 1
        THEN Raise(ValueError("Could not parse ball", <<s>>))
        ELSE Ok(matching_balls[1])

\* ------------------------------------------------------------------------
\* Quantity (src/onhands/__init__.py:136-215)
\* ------------------------------------------------------------------------
NegativeQuantityError(game, i, j) ==
    [type |-> "NegativeQuantityError", game |-> game, i |-> i, j |-> j]

\* Quantity(qty): qty maps some games to counts, the others are filled with 0
Quantity(qty) == [game \in GameSet |-> IF game \in DOMAIN qty THEN qty[game] ELSE 0]

RECURSIVE AddLoop(_, _, _, _)
AddLoop(self, other, n, new_qty) ==
    IF n > Len(Game) THEN Quantity(new_qty)
    ELSE AddLoop(self, other, n + 1,
                 new_qty @@ (Game[n] :> (self[Game[n]] + other[Game[n]])))

\* Quantity.__add__ forgetting the other operand's SV1 count
QuantityAdd_dropsSV1(self, other) ==
    [game \in GameSet |-> IF game = "SV1" THEN self[game] ELSE self[game] + other[game]]

\* Quantity.__add__
QuantityAdd(self, other) == AddLoop(self, other, 1, <<>>)

RECURSIVE SubLoop(_, _, _, _)
SubLoop(self, other, n, new_qty) ==
    IF n > Len(Game) THEN Ok(Quantity(new_qty))
    ELSE LET game == Game[n]
             d == self[game] - other[game]
         IN  IF d < 0
             THEN Raise(NegativeQuantityError(game, self[game], other[game]))
             ELSE SubLoop(self, other, n + 1, new_qty @@ (game :> d))

\* Quantity.__sub__ reporting the last game that would go negative
QuantitySub_lastGame(self, other) ==
    LET short == {n \in 1..Len(Game) : self[Game[n]] - other[Game[n]] < 0}
        last == CHOOSE n \in short : \A m \in short : m <= n
    IN  IF short = {} THEN Ok([game \in GameSet |-> self[game] - other[game]])
        ELSE Raise(NegativeQuantityError(Game[last], self[Game[last]], other[Game[last]]))

\* Quantity.__sub__ raising when a count would reach zero
QuantitySub_raisesAtZero(self, other) ==
    LET short == {n \in 1..Len(Game) : self[Game[n]] - other[Game[n]] <= 0}
        first == CHOOSE n \in short : \A m \in short : n <= m
    IN  IF short = {} THEN Ok([game \in GameSet |-> self[game] - other[game]])
        ELSE Raise(NegativeQuantityError(Game[first], self[Game[first]], other[Game[first]]))

\* Quantity.__sub__
QuantitySub(self, other) == SubLoop(self, other, 1, <<>>)

\* Quantity.is_empty
is_empty(qty) == \A game \in GameSet : qty[game] = 0

\* ------------------------------------------------------------------------
\* Aprimon (src/onhands/__init__.py:218-250)
\* ------------------------------------------------------------------------
\* Aprimon(ball, species): parse_ball raises ValueError, canonicalise IndexError
Aprimon(ball, species) ==
    LET parsed == parse_ball(ball)
    IN  IF ~parsed.ok THEN Raise(parsed.err)
        ELSE IF CanonicaliseRaises(species) THEN Raise(IndexError)
        ELSE Ok([ball |-> parsed.val, species |-> canonicalise(species)])

\* Aprimon.__lt__: tuple comparison of (ball.value, species)
AprimonLess(self, other) ==
    \/ StrLess(self.ball, other.ball)
    \/ self.ball = other.ball /\ StrLess(self.species, other.species)

\* ------------------------------------------------------------------------
\* Text lines and sheet rows (src/onhands/__init__.py:253-326)
\* ------------------------------------------------------------------------
\* the game argument of the parser when no game is given
None == "None"

\* the part of parse_apri_qty_from_line after the game is known
ParseWords(line, game) ==
    LET words == Words(line, "")
        quantity_ok == Len(words) = 2 \/ IsInt(words[3])
        quantity == IF Len(words) = 2 THEN 1 ELSE IntValue(words[3])
        apri == Aprimon(words[1], words[2])
    IN  IF Len(words) \notin {2, 3}
        THEN Raise(ValueError("Could not parse line into Aprimon and quantity", <<line>>))
        ELSE IF ~quantity_ok THEN Raise(ValueError("Could not parse quantity", <<words[3]>>))
        ELSE IF ~apri.ok THEN Raise(apri.err)
        ELSE Ok(<<apri.val, Quantity(game :> quantity)>>)

parse_apri_qty_from_line(line, game) ==
    IF game = None
    THEN LET parts == SplitFirst(line)
             parsed == parse_game(parts[1])
         IN  IF Len(parts) # 2
             THEN Raise(ValueError("not enough values to unpack", <<line>>))
             ELSE IF ~parsed.ok
                  THEN Raise(ValueError("Could not parse game", <<parts[1]>>))
                  ELSE ParseWords(parts[2], parsed.val)
    ELSE ParseWords(line, game)

\* the columns holding the quantities, paired with Game in declared order
QuantityCols == <<SWSH1_COL, SWSH2_COL, SV1_COL, SV2_COL, BDSP_COL>>

\* row padded with empty cells up to the last quantity column
PadRow(row) ==
    IF Len(row) < BDSP_COL + 1
    THEN row \o [i \in 1..(BDSP_COL + 1 - Len(row)) |-> ""]
    ELSE row

RECURSIVE RowQtyLoop(_, _, _)
\* the loop over the quantity columns: a cell of column col is row[col + 1]
RowQtyLoop(row, n, qty) ==
    IF n > Len(QuantityCols) THEN Ok(qty)
    ELSE LET cell == row[QuantityCols[n] + 1]
         IN  IF cell = "" THEN RowQtyLoop(row, n + 1, qty)
             ELSE IF ~IsInt(cell) THEN Raise(ValueError("Could not parse quantity", <<cell>>))
             ELSE RowQtyLoop(row, n + 1, qty @@ (Game[n] :> IntValue(cell)))

parse_apri_qty_from_gsheet_row(row) ==
    LET padded == PadRow(row)
        qty == RowQtyLoop(padded, 1, <<>>)
        apri == Aprimon(padded[BALL_COL + 1], padded[SPECIES_COL + 1])
    IN  IF ~qty.ok THEN Raise(qty.err)
        ELSE IF ~apri.ok THEN Raise(apri.err)
        ELSE Ok(<<apri.val, Quantity(qty.val)>>)

\* the formula of column col (2..7) for sheet row row_number
Formula(col, row_number) ==
    LET r == Str(row_number)
    IN  CASE col = 2 -> "=VLOOKUP(A" \o r \o ", Backend!$AD$4:$AE$20, 2)"
          [] col = 3 -> "=VLOOKUP(B" \o r \o ", Backend!$A$4:$V, Backend!$C$2)"
          [] col = 4 -> "=SUM($J" \o r \o ":$N" \o r \o ")"
          [] col = 5 -> "=VLOOKUP($B" \o r \o ", Backend!$A$4:$V, Backend!S$2)"
          [] col = 6 -> "=VLOOKUP($B" \o r \o ", Backend!$A$4:$V, Backend!U$2)"
          [] col = 7 -> "=VLOOKUP($B" \o r \o ", Backend!$A$4:$V, Backend!V$2)"

\* the game whose quantity column is col, "" if col is not a quantity column
GameOfCol(col) ==
    IF \E n \in 1..Len(QuantityCols) : QuantityCols[n] = col
    THEN Game[CHOOSE n \in 1..Len(QuantityCols) : QuantityCols[n] = col]
    ELSE ""

make_gsheet_row_from_apri_qty(apri, qty, row_number) ==
    [i \in 1..(LAST_COL + 1) |->
        LET col == i - 1
        IN  IF col = BALL_COL THEN apri.ball
            ELSE IF col = SPECIES_COL THEN canonicalise(apri.species)
            ELSE IF col \in 2..7 THEN Formula(col, row_number)
            ELSE IF GameOfCol(col) # ""
                 THEN (LET q == qty[GameOfCol(col)] IN IF q = 0 THEN "" ELSE Str(q))
                 ELSE ""]

\* ------------------------------------------------------------------------
\* Collection (src/onhands/__init__.py:329-459): entries maps Aprimon to Quantity
\* ------------------------------------------------------------------------
empty == [apri \in {} |-> Quantity(<<>>)]

\* add_entry overwriting the entry of an Aprimon already present
add_entry_overwrites(entries, aprimon, quantity) ==
    [apri \in DOMAIN entries \cup {aprimon} |->
        IF apri = aprimon THEN quantity ELSE entries[apri]]

add_entry(entries, aprimon, quantity) ==
    IF aprimon \in DOMAIN entries
    THEN [entries EXCEPT ![aprimon] = QuantityAdd(@, quantity)]
    ELSE entries @@ (aprimon :> quantity)

RECURSIVE FromRowsLoop(_, _, _)
FromRowsLoop(values, n, sheet) ==
    IF n > Len(values) THEN Ok(sheet)
    ELSE LET r == parse_apri_qty_from_gsheet_row(values[n])
         IN  IF ~r.ok THEN Raise(r.err)
             ELSE FromRowsLoop(values, n + 1, add_entry(sheet, r.val[1], r.val[2]))

RECURSIVE FromLinesLoop(_, _, _, _)
FromLinesLoop(lines, game, n, sheet) ==
    IF n > Len(lines) THEN Ok(sheet)
    ELSE LET line == Strip(lines[n])
             r == parse_apri_qty_from_line(line, game)
         IN  IF line = "" THEN FromLinesLoop(lines, game, n + 1, sheet)
             ELSE IF ~r.ok THEN Raise(r.err)
             ELSE FromLinesLoop(lines, game, n + 1, add_entry(sheet, r.val[1], r.val[2]))

\* Collection.from_lines
from_lines(lines, game) == FromLinesLoop(lines, game, 1, empty)

\* Collection.__add__ keeping its own vector for a shared key
CollectionAdd_keepsSelf(self, other) ==
    [apri \in DOMAIN self \cup DOMAIN other |->
        IF apri \in DOMAIN self THEN self[apri] ELSE other[apri]]

\* Collection.__add__
CollectionAdd(self, other) ==
    [apri \in DOMAIN self \cup DOMAIN other |->
        IF apri \in DOMAIN self /\ apri \in DOMAIN other
        THEN QuantityAdd(self[apri], other[apri])
        ELSE IF apri \in DOMAIN self THEN self[apri] ELSE other[apri]]

\* Collection.prune removing nothing
prune_keepsAll(entries) == entries

\* Collection.prune
prune(entries) == [apri \in {a \in DOMAIN entries : ~is_empty(entries[a])} |-> entries[apri]]

\* the loop of Collection.__sub__ skipping a key absent from the first operand
SubEntry_skipsAbsent(self, other, apri) ==
    IF apri \in DOMAIN self /\ apri \in DOMAIN other
    THEN LET r == QuantitySub(self[apri], other[apri])
         IN  IF r.ok THEN r
             ELSE Raise(ValueError("would have negative quantity",
                                   <<apri, r.err.game, r.err.i, r.err.j>>))
    ELSE IF apri \in DOMAIN self THEN Ok(self[apri])
    ELSE Ok(Quantity(<<>>))

\* one iteration of the loop of Collection.__sub__
SubEntry(self, other, apri) ==
    IF apri \in DOMAIN self /\ apri \in DOMAIN other
    THEN LET r == QuantitySub(self[apri], other[apri])
         IN  IF r.ok THEN r
             ELSE Raise(ValueError("would have negative quantity",
                                   <<apri, r.err.game, r.err.i, r.err.j>>))
    ELSE IF apri \in DOMAIN self THEN Ok(self[apri])
    ELSE Raise(ValueError("was not present in first spreadsheet", <<apri>>))

\* Collection.__sub__: the loop visits the keys in the iteration order of a
\* Python set, which is not determined, and stops at the first key that
\* raises; so the outcomes are the error of any raising key, or the pruned
\* result when no key raises.
CollectionSub(self, other) ==
    LET all_apris == DOMAIN self \cup DOMAIN other
        raising == {apri \in all_apris : ~SubEntry(self, other, apri).ok}
    IN  IF raising = {}
        THEN {Ok(prune([apri \in all_apris |-> SubEntry(self, other, apri).val]))}
        ELSE {Raise(SubEntry(self, other, apri).err) : apri \in raising}

RECURSIVE SortedApris(_)
\* sorted(..., key=apri): ascending by Aprimon.__lt__
SortedApris(S) ==
    IF S = {} THEN <<>>
    ELSE LET least == CHOOSE a \in S : \A b \in S \ {a} : AprimonLess(a, b)
         IN  <<least>> \o SortedApris(S \ {least})

\* Collection._to_sheet_values numbering the rows without the header rows
to_sheet_values_noHeader(entries) ==
    LET sorted_entries == SortedApris({a \in DOMAIN entries : ~is_empty(entries[a])})
    IN  [i \in 1..Len(sorted_entries) |->
            make_gsheet_row_from_apri_qty(sorted_entries[i], entries[sorted_entries[i]], i)]

\* Collection._to_sheet_values
to_sheet_values(entries) ==
    LET sorted_entries == SortedApris({a \in DOMAIN entries : ~is_empty(entries[a])})
    IN  [i \in 1..Len(sorted_entries) |->
            make_gsheet_row_from_apri_qty(sorted_entries[i], entries[sorted_entries[i]],
                                          N_HEADER_ROWS + i)]

\* ------------------------------------------------------------------------
\* The worksheet (the gspread calls of src/onhands/__init__.py:378-382 and
\* 462-514).  The grid is a sequence of rows, LAST_COL + 1 cells wide; a row
\* also carries whether the border style is set on its quantity cells.
\* ------------------------------------------------------------------------
BlankCells == [i \in 1..(LAST_COL + 1) |-> ""]

IsBlank(cells) == \A i \in 1..Len(cells) : cells[i] = ""

RECURSIVE TrimCells(_)
\* a fetched row ends at its last non-empty cell
TrimCells(cells) ==
    IF Len(cells) > 0 /\ cells[Len(cells)] = ""
    THEN TrimCells(SubSeq(cells, 1, Len(cells) - 1))
    ELSE cells

RECURSIVE LastUsedRow(_, _)
\* the index of the last row at or before n that has a non-empty cell, 0 if none
LastUsedRow(grid, n) ==
    IF n = 0 THEN 0
    ELSE IF ~IsBlank(grid[n].cells) THEN n
    ELSE LastUsedRow(grid, n - 1)

\* ws.get_values(range from row first_row on): the rows up to the last used one
get_values(grid, first_row) ==
    LET last == LastUsedRow(grid, Len(grid))
    IN  IF last < first_row THEN <<>>
        ELSE [i \in 1..(last - first_row + 1) |-> TrimCells(grid[first_row + i - 1].cells)]

\* ws.insert_rows(values, row, inherit_from_before=True) with blank values:
\* count blank rows are put before row, formatted as the row above them
insert_rows(grid, count, row) ==
    SubSeq(grid, 1, row - 1)
    \o [i \in 1..count |-> [cells |-> BlankCells, border |-> grid[row - 1].border]]
    \o SubSeq(grid, row, Len(grid))

\* ws.delete_rows(start_index, end_index): both ends included
delete_rows(grid, start_index, end_index) ==
    SubSeq(grid, 1, start_index - 1) \o SubSeq(grid, end_index + 1, Len(grid))

\* ws.batch_update of the range starting at row first_row with values
batch_update(grid, first_row, values) ==
    [n \in 1..Len(grid) |->
        IF n >= first_row /\ n < first_row + Len(values)
        THEN [grid[n] EXCEPT !.cells = values[n - first_row + 1]]
        ELSE grid[n]]

\* ws.format of the open-ended range starting at row first_row
format(grid, first_row) ==
    [n \in 1..Len(grid) |-> IF n >= first_row THEN [grid[n] EXCEPT !.border = TRUE] ELSE grid[n]]

\* Collection.from_sheet, given the worksheet
from_sheet(grid) == FromRowsLoop(get_values(grid, N_HEADER_ROWS + 1), 1, empty)

\* ------------------------------------------------------------------------
\* Bounds and input sets
\* ------------------------------------------------------------------------
\* the most data rows of an initial worksheet
MaxInitRows == 2
\* the most lines of one command's input
MaxLines == 2

\* what a data row of the initial worksheet may hold: ball, species, and the
\* cells of the SWSH1 and SV1 columns (the worksheet can be edited by hand)
RowSamples ==
    { <<"Beast", "Togepi", "2", "">>,
      <<"Dream", "Togepi", "", "1">>,
      <<"beast", "togepi", "1", "3">>,
      <<"Fast", "Abra", "", "">>,
      <<"Beast", "Togepi", "x", "">> }

SampleCells(sample, row_number) ==
    [i \in 1..(LAST_COL + 1) |->
        IF i - 1 = BALL_COL THEN sample[1]
        ELSE IF i - 1 = SPECIES_COL THEN sample[2]
        ELSE IF i - 1 \in 2..7 THEN Formula(i - 1, row_number)
        ELSE IF i - 1 = SWSH1_COL THEN sample[3]
        ELSE IF i - 1 = SV1_COL THEN sample[4]
        ELSE ""]

HeaderRows ==
    [n \in 1..N_HEADER_ROWS |->
        [cells |-> [i \in 1..(LAST_COL + 1) |-> IF i = 1 THEN "Header" ELSE ""],
         border |-> FALSE]]

\* a worksheet: the header rows, then one bordered row per sample
InitialSheet(samples) ==
    HeaderRows \o [n \in 1..Len(samples) |->
                      [cells |-> SampleCells(samples[n], N_HEADER_ROWS + n), border |-> TRUE]]

InitialSheets ==
    {InitialSheet(samples) : samples \in UNION {[1..n -> RowSamples] : n \in 0..MaxInitRows}}

\* the lines a command may be given
InputLines ==
    { "swsh1 b togepi 2",
      "sv1 dream togepi",
      "swsh1 fast abra 0",
      "swsh1 b togepi -1",
      "swsh1 b togepi x",
      "s togepi",
      "b togepi" }

\* the -g option: absent, or a game tag
GameOptions == {None, "sv1"}

Inputs ==
    [command : {"add", "rm"},
     game : GameOptions,
     lines : UNION {[1..n -> InputLines] : n \in 0..MaxLines}]

\* ------------------------------------------------------------------------
\* One run of the command line (src/onhands/cli.py:25-46, 154-211) against
\* the worksheet
\* ------------------------------------------------------------------------
VARIABLES
    sheet,      \* the worksheet's grid
    pc,         \* where the run is
    command,    \* args.command: "add" or "rm"
    c_arg,      \* c_add or c_rm: the Collection parsed from the lines
    c,          \* the Collection read from the worksheet
    c_new,      \* the Collection to write
    nrows,      \* to_sheet's nrows
    error,      \* the exception that ended the run
    call,       \* the operation applied in the operation-level specification
    requests,   \* the worksheet calls issued so far, in order
    sheet0,     \* the worksheet's grid when the run started
    external    \* the edit another writer made to the worksheet during the run

vars == <<sheet, pc, command, c_arg, c, c_new, nrows, error, call, requests, sheet0, external>>

NoCommand == ""
NoError == [type |-> "", what |-> "", about |-> <<>>]
NoCall == [op |-> "", args |-> <<>>, result |-> <<>>]
NoEdit == [kind |-> "", row |-> 0, cells |-> <<>>]

\* the state of a run that starts on the worksheet grid
Start(grid) ==
    /\ sheet = grid
    /\ pc = "start"
    /\ command = NoCommand
    /\ c_arg = empty
    /\ c = empty
    /\ c_new = empty
    /\ nrows = 0
    /\ error = NoError
    /\ call = NoCall
    /\ requests = <<>>
    /\ sheet0 = grid
    /\ external = NoEdit

Init == \E grid \in InitialSheets : Start(grid)

\* main, up to the call of _add or _rm: the -g option and the lines parsed
ParseInput(in) ==
    LET game == IF in.game = None THEN Ok(None) ELSE parse_game(in.game)
    IN  IF ~game.ok THEN Raise(game.err) ELSE from_lines(in.lines, game.val)

\* the command of each input with what main parses from it
ParsedInputs == {[command |-> in.command, parsed |-> ParseInput(in)] : in \in Inputs}

\* main: parse the -g option and the lines; nothing else is done when the
\* lines give no entry
Main ==
    /\ pc = "start"
    /\ \E in \in ParsedInputs :
        /\ command' = in.command
        /\ IF ~in.parsed.ok
           THEN pc' = "failed" /\ error' = in.parsed.err /\ c_arg' = c_arg
           ELSE /\ c_arg' = in.parsed.val
                /\ error' = error
                /\ pc' = IF Cardinality(DOMAIN in.parsed.val) > 0 THEN "parsed" ELSE "nothing"
    /\ UNCHANGED <<sheet, c, c_new, nrows, call, requests, sheet0, external>>

\* _add / _rm: c = Collection.from_sheet()
FromSheet ==
    /\ pc = "parsed"
    /\ LET r == from_sheet(sheet)
       IN  IF r.ok
           THEN c' = r.val /\ pc' = "read" /\ error' = error
           ELSE c' = c /\ pc' = "failed" /\ error' = r.err
    /\ requests' = Append(requests, "get_values")
    /\ UNCHANGED <<sheet, command, c_arg, c_new, nrows, call, sheet0, external>>

\* _add: c_new = c + c_add
Add ==
    /\ pc = "read"
    /\ command = "add"
    /\ c_new' = CollectionAdd(c, c_arg)
    /\ pc' = "combined"
    /\ UNCHANGED <<sheet, command, c_arg, c, nrows, error, call, requests, sheet0, external>>

\* _rm deleting the data rows before it subtracts
Rm_deletesBeforeSubtracting ==
    /\ pc = "read"
    /\ command = "rm"
    /\ \E r \in CollectionSub(c, c_arg) :
        IF r.ok
        THEN c_new' = r.val /\ pc' = "combined" /\ error' = error
        ELSE c_new' = c_new /\ pc' = "failed" /\ error' = r.err
    /\ sheet' = delete_rows(sheet, N_HEADER_ROWS + 1, Len(sheet))
    /\ requests' = Append(requests, "delete_rows")
    /\ UNCHANGED <<command, c_arg, c, nrows, call, sheet0, external>>

\* _rm: c_new = c - c_rm
Rm ==
    /\ pc = "read"
    /\ command = "rm"
    /\ \E r \in CollectionSub(c, c_arg) :
        IF r.ok
        THEN c_new' = r.val /\ pc' = "combined" /\ error' = error
        ELSE c_new' = c_new /\ pc' = "failed" /\ error' = r.err
    /\ UNCHANGED <<sheet, command, c_arg, c, nrows, call, requests, sheet0, external>>

\* to_sheet: nrows = len(ws.get_values())
ToSheetCount ==
    /\ pc = "combined"
    /\ nrows' = Len(get_values(sheet, 1))
    /\ pc' = "counted"
    /\ requests' = Append(requests, "get_values")
    /\ UNCHANGED <<sheet, command, c_arg, c, c_new, error, call, sheet0, external>>

\* to_sheet's nrows_new
nrows_new(entries) == Cardinality(DOMAIN entries) + N_HEADER_ROWS

\* the worksheet call that to_sheet makes to adjust the number of rows, "" if none
ResizeCall(entries, n) ==
    IF nrows_new(entries) > n THEN "insert_rows"
    ELSE IF nrows_new(entries) < n THEN "delete_rows"
    ELSE ""

\* the grid after that call
Resized(grid, entries, n) ==
    IF ResizeCall(entries, n) = "insert_rows"
    THEN insert_rows(grid, nrows_new(entries) - n, n + 1)
    ELSE IF ResizeCall(entries, n) = "delete_rows"
    THEN delete_rows(grid, nrows_new(entries) + 1, n)
    ELSE grid

\* to_sheet: insert rows at the bottom, or delete them
ToSheetResize ==
    /\ pc = "counted"
    /\ sheet' = Resized(sheet, c_new, nrows)
    /\ requests' = IF ResizeCall(c_new, nrows) = "" THEN requests
                   ELSE Append(requests, ResizeCall(c_new, nrows))
    /\ pc' = "resized"
    /\ UNCHANGED <<command, c_arg, c, c_new, nrows, error, call, sheet0, external>>

\* to_sheet updating the rows below the header with one call for each row
ToSheetUpdate_rowByRow ==
    /\ pc = "resized"
    /\ sheet' = batch_update(sheet, N_HEADER_ROWS + 1, to_sheet_values(c_new))
    /\ requests' = requests \o [i \in 1..Len(to_sheet_values(c_new)) |-> "batch_update"]
    /\ pc' = "updated"
    /\ UNCHANGED <<command, c_arg, c, c_new, nrows, error, call, sheet0, external>>

\* to_sheet: ws.batch_update of the rows below the header
ToSheetUpdate ==
    /\ pc = "resized"
    /\ sheet' = batch_update(sheet, N_HEADER_ROWS + 1, to_sheet_values(c_new))
    /\ requests' = Append(requests, "batch_update")
    /\ pc' = "updated"
    /\ UNCHANGED <<command, c_arg, c, c_new, nrows, error, call, sheet0, external>>

\* to_sheet going on to format after a worksheet call has raised
ToSheetFormat_afterFailure ==
    /\ pc \in {"updated", "failed"}
    /\ sheet' = format(sheet, N_HEADER_ROWS + 1)
    /\ requests' = Append(requests, "format")
    /\ pc' = "done"
    /\ UNCHANGED <<command, c_arg, c, c_new, nrows, error, call, sheet0, external>>

\* to_sheet: ws.format of the quantity columns below the header
ToSheetFormat ==
    /\ pc = "updated"
    /\ sheet' = format(sheet, N_HEADER_ROWS + 1)
    /\ requests' = Append(requests, "format")
    /\ pc' = "done"
    /\ UNCHANGED <<command, c_arg, c, c_new, nrows, error, call, sheet0, external>>

Next ==
    \/ Main
    \/ FromSheet
    \/ Add
    \/ Rm
    \/ ToSheetCount
    \/ ToSheetResize
    \/ ToSheetUpdate
    \/ ToSheetFormat

Spec == Init /\ [][Next]_vars

\* ------------------------------------------------------------------------
\* A run with another writer of the worksheet: the program takes no lock and
\* keeps no version of what it read, so between from_sheet and to_sheet
\* (src/onhands/cli.py:27-29, 44-46) the worksheet may be edited
\* ------------------------------------------------------------------------
\* the most data rows of the initial worksheet of these runs
MaxSmallRows == 1

SmallSheets ==
    {InitialSheet(samples) : samples \in UNION {[1..n -> RowSamples] : n \in 0..MaxSmallRows}}

InitSmall == \E grid \in SmallSheets : Start(grid)

\* the edits of the other writer: a row appended below the last one, a count
\* typed into the first data row, the last data row deleted
ExternalEdits(grid) ==
    {[kind |-> "append", row |-> Len(grid) + 1,
      cells |-> SampleCells(<<"Moon", "Abra", "", "4">>, Len(grid) + 1)]}
    \cup (IF Len(grid) > N_HEADER_ROWS
          THEN {[kind |-> "set", row |-> N_HEADER_ROWS + 1,
                 cells |-> [grid[N_HEADER_ROWS + 1].cells EXCEPT ![SWSH1_COL + 1] = "7"]],
                [kind |-> "delete", row |-> Len(grid), cells |-> <<>>]}
          ELSE {})

\* the grid after an edit
Edited(grid, edit) ==
    IF edit.kind = "append" THEN Append(grid, [cells |-> edit.cells, border |-> FALSE])
    ELSE IF edit.kind = "set" THEN [grid EXCEPT ![edit.row].cells = edit.cells]
    ELSE delete_rows(grid, edit.row, edit.row)

\* the other writer edits the worksheet after from_sheet and before to_sheet
ExternalEdit ==
    /\ pc \in {"read", "combined"}
    /\ external = NoEdit
    /\ \E edit \in ExternalEdits(sheet) :
        /\ sheet' = Edited(sheet, edit)
        /\ external' = edit
    /\ UNCHANGED <<pc, command, c_arg, c, c_new, nrows, error, call, requests, sheet0>>

NextRace ==
    \/ Next
    \/ ExternalEdit

SpecRace == InitSmall /\ [][NextRace]_vars

\* ------------------------------------------------------------------------
\* A run in which the worksheet calls of to_sheet may raise: to_sheet has no
\* try, so gspread's exception ends the run (src/onhands/__init__.py:461-516).
\* The call that raised may or may not have been applied to the worksheet.
\* ------------------------------------------------------------------------
APIError(request) == [type |-> "APIError", what |-> request, about |-> <<>>]

\* a call of to_sheet raises: request is the call, applied the grid it gives
Fails(at, request, applied) ==
    /\ pc = at
    /\ pc' = "failed"
    /\ error' = APIError(request)
    /\ requests' = Append(requests, request)
    /\ sheet' \in {sheet, applied}
    /\ UNCHANGED <<command, c_arg, c, c_new, nrows, call, sheet0, external>>

\* ws.get_values raises
ToSheetCountFails == Fails("combined", "get_values", sheet)

\* ws.insert_rows or ws.delete_rows raises
ToSheetResizeFails ==
    /\ ResizeCall(c_new, nrows) # ""
    /\ Fails("counted", ResizeCall(c_new, nrows), Resized(sheet, c_new, nrows))

\* ws.batch_update raises
ToSheetUpdateFails ==
    Fails("resized", "batch_update",
          batch_update(sheet, N_HEADER_ROWS + 1, to_sheet_values(c_new)))

\* ws.format raises
ToSheetFormatFails == Fails("updated", "format", format(sheet, N_HEADER_ROWS + 1))

NextFail ==
    \/ Next
    \/ ToSheetCountFails
    \/ ToSheetResizeFails
    \/ ToSheetUpdateFails
    \/ ToSheetFormatFails

SpecFail == InitSmall /\ [][NextFail]_vars

\* ------------------------------------------------------------------------
\* The operations on their own: a behaviour applies one operation of Quantity,
\* of Collection or of the row codec to operands drawn from bounded sets
\* ------------------------------------------------------------------------
\* the largest count of an operand of the Quantity operations
MaxQty == 2
\* the largest count in an operand of the Collection operations
MaxCollQty == 1
\* a count of more than one digit, for the row codec
BigQty == 12

\* the operands of Quantity.__add__ and Quantity.__sub__: counts from -1 up
\* in three of the games, and the two vectors of the worked example
Quantities ==
    {Quantity(q) : q \in [{"SWSH1", "SV1", "BDSP"} -> -1..MaxQty]}
    \cup {Quantity(("SWSH1" :> 3) @@ ("SV1" :> 3)), Quantity("SWSH1" :> 5)}

Togepi == [ball |-> "Beast", species |-> "Togepi"]

\* the keys and the vectors of the operands of Collection.__add__ / __sub__
CollectionKeys == {Togepi, [ball |-> "Dream", species |-> "Abra"]}
CollectionQuantities ==
    {Quantity(q) : q \in [{"SWSH1", "SV1"} -> 0..MaxCollQty]} \cup {Quantity("SWSH1" :> -1)}

Collections ==
    UNION {[keys -> CollectionQuantities] : keys \in SUBSET CollectionKeys}
    \cup {Togepi :> Quantity("SWSH1" :> 2),
          Togepi :> Quantity(("SWSH1" :> 1) @@ ("SV1" :> 3)),
          Togepi :> Quantity("SWSH1" :> 5)}

\* the Aprimon values given to the codec, as the constructor builds them
RawAprimons ==
    { <<"b", "togepi">>, <<"dream", "jangmo-o">>, <<"sport", "indeedee-f">>,
      <<"fr", "mime-galar">>, <<"love", "mr. mr. mime">>, <<"fast", "flabebe-blue">> }
Aprimons == {Aprimon(raw[1], raw[2]).val : raw \in RawAprimons}

CodecQuantities == [GameSet -> {0, 1, BigQty}]
RowNumbers == {N_HEADER_ROWS + 1, N_HEADER_ROWS + BigQty}

InitOps == Start(InitialSheet(<<>>))

Called(op, args, result) ==
    /\ call' = [op |-> op, args |-> args, result |-> result]
    /\ UNCHANGED <<sheet, pc, command, c_arg, c, c_new, nrows, error, requests, sheet0, external>>

\* a + b on Quantity
CallQuantityAdd ==
    /\ call = NoCall
    /\ \E a \in Quantities, b \in Quantities :
        Called("Quantity.__add__", <<a, b>>, QuantityAdd(a, b))

\* a - b on Quantity
CallQuantitySub ==
    /\ call = NoCall
    /\ \E a \in Quantities, b \in Quantities :
        Called("Quantity.__sub__", <<a, b>>, QuantitySub(a, b))

\* (a - b) + b on Quantity
CallQuantitySubAdd ==
    /\ call = NoCall
    /\ \E a \in Quantities, b \in Quantities :
        LET d == QuantitySub(a, b)
        IN  Called("Quantity.__sub__ then __add__", <<a, b>>,
                   IF d.ok THEN Ok(QuantityAdd(d.val, b)) ELSE d)

\* A + B on Collection
CallCollectionAdd ==
    /\ call = NoCall
    /\ \E A \in Collections, B \in Collections :
        Called("Collection.__add__", <<A, B>>, CollectionAdd(A, B))

\* A - B on Collection
CallCollectionSub ==
    /\ call = NoCall
    /\ \E A \in Collections, B \in Collections :
        \E r \in CollectionSub(A, B) : Called("Collection.__sub__", <<A, B>>, r)

\* (C + D) - D on Collection
CallCollectionAddSub ==
    /\ call = NoCall
    /\ \E C \in Collections, D \in Collections :
        \E r \in CollectionSub(CollectionAdd(C, D), D) :
            Called("Collection.__add__ then __sub__", <<C, D>>, r)

\* parse_apri_qty_from_gsheet_row(make_gsheet_row_from_apri_qty(apri, qty, row_number))
CallCodec ==
    /\ call = NoCall
    /\ \E apri \in Aprimons, qty \in CodecQuantities, row_number \in RowNumbers :
        Called("make_gsheet_row then parse_gsheet_row", <<apri, qty, row_number>>,
               parse_apri_qty_from_gsheet_row(
                   make_gsheet_row_from_apri_qty(apri, qty, row_number)))

\* the keys of the Collections given to _to_sheet_values: balls from both ends
\* of the enum, species that share a prefix, and the two keys that a line
\* "flabebe" gives before and after its row has been written and read back
WrittenKeys ==
    { Aprimon("beast", "togepi").val, Aprimon("beast", "togepi-x").val,
      Aprimon("dream", "abra").val, Aprimon("safari", "togepi").val,
      Aprimon("sport", "abra").val,
      Aprimon("fast", "flabebe").val,
      Aprimon("fast", canonicalise(canonicalise("flabebe"))).val }

\* each key absent, with an all-zero vector, or with a count
WrittenCollections ==
    UNION {[keys -> {Quantity(<<>>), Quantity("SV1" :> 1)}] : keys \in SUBSET WrittenKeys}

\* C._to_sheet_values()
CallToSheetValues ==
    /\ call = NoCall
    /\ \E C \in WrittenCollections :
        Called("Collection._to_sheet_values", <<C>>, to_sheet_values(C))

\* the strings given to parse_ball: every prefix of every ball name in lower
\* case (the empty one included), some in other cases, and some that are a
\* prefix of no name
BallPrefixes ==
    UNION {{SubSeq(Lower(Ball[i]), 1, n) : n \in 0..Len(Ball[i])} : i \in 1..Len(Ball)}
    \cup {"B", "FR", "Fr", "S", "SA", "LoVe", "SPORT", "Safari", "L", "lU"}
    \cup {"x", "beasts", "beast ball", "east", " b", "b ", "ultra"}

\* parse_ball(s)
CallParseBall ==
    /\ call = NoCall
    /\ \E s \in BallPrefixes : Called("parse_ball", <<s>>, parse_ball(s))

\* the species names given to canonicalise: the names of its docstring, names
\* in other cases, and names that hold "mr. mime" or "mime" more than once
SpeciesNames ==
    { "togepi", "TOGEPI", "indeedee-f", "jangmo-o", "o", "flabebe-blue",
      "mime", "mrmime", "mime-galar", "mr. mime", "Mr. Mime-Galar",
      "mr. mr. mime", "mime-mime" }

\* canonicalise(species_name), and canonicalise of that
CallCanonicalise ==
    /\ call = NoCall
    /\ \E species_name \in SpeciesNames :
        Called("canonicalise", <<species_name>>,
               <<canonicalise(species_name), canonicalise(canonicalise(species_name))>>)

NextOps ==
    \/ CallQuantityAdd
    \/ CallQuantitySub
    \/ CallQuantitySubAdd
    \/ CallCollectionAdd
    \/ CallCollectionSub
    \/ CallCollectionAddSub
    \/ CallCodec
    \/ CallToSheetValues
    \/ CallParseBall
    \/ CallCanonicalise

SpecOps == InitOps /\ [][NextOps]_vars

\* ------------------------------------------------------------------------
\* Properties
\* ------------------------------------------------------------------------
NonNegative(entries) ==
    \A apri \in DOMAIN entries : \A game \in GameSet : entries[apri][game] >= 0

\* the entries of a Collection whose vector has a non-zero count
NonZeroEntries(entries) ==
    [apri \in {a \in DOMAIN entries : \E game \in GameSet : entries[a][game] # 0}
        |-> entries[apri]]

\* C1: once to_sheet has completed, the worksheet has exactly N_HEADER_ROWS + K
\* rows, K being the number of entries of the written Collection whose vector
\* is non-zero.
C1_RowsAreHeaderPlusNonZero ==
    pc = "done" => Len(sheet) = N_HEADER_ROWS + Cardinality(DOMAIN NonZeroEntries(c_new))

\* C2: no Collection built by line parsing, by reading the worksheet, by
\* add_entry, by + or by - holds a vector with a negative count.
C2_NoNegativeCount == NonNegative(c_arg) /\ NonNegative(c) /\ NonNegative(c_new)

\* C3 (as claimed): for any Collection C and any Collection D with
\* non-negative vectors, (C + D) - D succeeds and equals C.  (Stated here for
\* the C that have no negative count either.)
C3_AddThenSubIsIdentity ==
    (/\ call.op = "Collection.__add__ then __sub__"
     /\ NonNegative(call.args[1])
     /\ NonNegative(call.args[2]))
        => (call.result.ok /\ call.result.val = call.args[1])

\* C3 (amended): for any Collection C and any Collection D with non-negative
\* vectors, (C + D) - D equals C without its all-zero entries; except that it
\* raises the negative-quantity error when a key of both C and D has a
\* negative count in C.
C3_AddThenSubIsPrunedIdentity ==
    (call.op = "Collection.__add__ then __sub__" /\ NonNegative(call.args[2]))
        => LET C == call.args[1]
               D == call.args[2]
           IN  IF \E apri \in DOMAIN C \cap DOMAIN D : \E game \in GameSet : C[apri][game] < 0
               THEN ~call.result.ok /\ call.result.err.what = "would have negative quantity"
               ELSE call.result.ok /\ call.result.val = NonZeroEntries(C)

\* C3 witness: C has an all-zero entry and a non-zero one, and only the
\* latter comes back.
C3_Witness ==
    /\ call.op = "Collection.__add__ then __sub__"
    /\ NonNegative(call.args[1]) /\ NonNegative(call.args[2])
    /\ call.result.ok
    /\ DOMAIN call.result.val # {}
    /\ DOMAIN call.result.val # DOMAIN call.args[1]
    /\ DOMAIN call.args[2] # {}

\* the keys of B that A lacks
AbsentKeys(A, B) == DOMAIN B \ DOMAIN A

\* C4 (as claimed): A - B raises the not-present error, naming a key of B
\* absent from A, whenever there is such a key.  (Stated here for the A and B
\* that have no negative count.)
C4_SubRaisesMissingEntry ==
    (/\ call.op = "Collection.__sub__"
     /\ NonNegative(call.args[1])
     /\ NonNegative(call.args[2])
     /\ AbsentKeys(call.args[1], call.args[2]) # {})
        => /\ ~call.result.ok
           /\ call.result.err.what = "was not present in first spreadsheet"
           /\ call.result.err.about[1] \in AbsentKeys(call.args[1], call.args[2])

\* C4 (amended): whenever B has a key absent from A (whatever its vector),
\* A - B raises and gives no Collection; the error is the not-present error
\* of such a key, or the negative-quantity error of a key of both whose
\* subtraction would go negative (the keys are visited in no fixed order).
C4_SubRaisesOnAbsentKey ==
    (call.op = "Collection.__sub__" /\ AbsentKeys(call.args[1], call.args[2]) # {})
        => LET A == call.args[1]
               B == call.args[2]
               err == call.result.err
           IN  /\ ~call.result.ok
               /\ \/ /\ err.what = "was not present in first spreadsheet"
                     /\ err.about[1] \in AbsentKeys(A, B)
                  \/ /\ err.what = "would have negative quantity"
                     /\ err.about[1] \in DOMAIN A \cap DOMAIN B
                     /\ \E game \in GameSet : A[err.about[1]][game] < B[err.about[1]][game]

\* C4 witness: the only key of B is absent from A and has an all-zero vector,
\* and the not-present error names it.
C4_Witness ==
    /\ call.op = "Collection.__sub__"
    /\ DOMAIN call.args[1] # {}
    /\ \E apri \in AbsentKeys(call.args[1], call.args[2]) :
        /\ DOMAIN call.args[2] = {apri}
        /\ \A game \in GameSet : call.args[2][apri][game] = 0
        /\ ~call.result.ok
        /\ call.result.err.what = "was not present in first spreadsheet"
        /\ call.result.err.about = <<apri>>

DeclaredGames == <<"SWSH1", "SWSH2", "SV1", "SV2", "BDSP">>

\* C5: a - b succeeds with the pointwise difference iff b <= a in every game;
\* otherwise it raises NegativeQuantityError(p, a[p], b[p]) for the first game
\* p, in declared order, with a[p] - b[p] < 0.
C5_SubRaisesAtFirstNegativeGame ==
    call.op = "Quantity.__sub__"
        => LET a == call.args[1]
               b == call.args[2]
               short == {n \in 1..5 : a[DeclaredGames[n]] < b[DeclaredGames[n]]}
               first == CHOOSE n \in short : \A m \in short : n <= m
           IN  IF \A game \in GameSet : b[game] <= a[game]
               THEN /\ call.result.ok
                    /\ \A game \in GameSet : call.result.val[game] = a[game] - b[game]
               ELSE /\ ~call.result.ok
                    /\ call.result.err.type = "NegativeQuantityError"
                    /\ call.result.err.game = DeclaredGames[first]
                    /\ call.result.err.i = a[DeclaredGames[first]]
                    /\ call.result.err.j = b[DeclaredGames[first]]

\* C5 witness: {swsh1=3, sv1=3} minus {swsh1=5} raises
\* NegativeQuantityError(swsh1, 3, 5).
C5_Witness ==
    /\ call.op = "Quantity.__sub__"
    /\ call.args[1]["SWSH1"] = 3 /\ call.args[1]["SV1"] = 3
    /\ call.args[2]["SWSH1"] = 5
    /\ ~call.result.ok
    /\ call.result.err = NegativeQuantityError("SWSH1", 3, 5)

\* C6: when A - B succeeds, the result has no all-zero vector, it has every
\* key of A whose resulting vector is non-zero, and a key of A alone keeps
\* A's vector.
C6_SubResultIsPruned ==
    (call.op = "Collection.__sub__" /\ call.result.ok)
        => LET A == call.args[1]
               B == call.args[2]
               R == call.result.val
               Diff(apri) == [game \in GameSet |->
                                 IF apri \in DOMAIN B THEN A[apri][game] - B[apri][game]
                                 ELSE A[apri][game]]
           IN  /\ \A apri \in DOMAIN R : \E game \in GameSet : R[apri][game] # 0
               /\ \A apri \in DOMAIN A :
                     (\E game \in GameSet : Diff(apri)[game] # 0) => apri \in DOMAIN R
               /\ \A apri \in DOMAIN R \ DOMAIN B : R[apri] = A[apri]

\* C6 witness: one key of A is subtracted to zero and dropped, another key of
\* A alone is kept.
C6_Witness ==
    /\ call.op = "Collection.__sub__"
    /\ call.result.ok
    /\ \E apri \in DOMAIN call.args[1] \cap DOMAIN call.args[2] :
        /\ apri \notin DOMAIN call.result.val
        /\ \E game \in GameSet : call.args[1][apri][game] # 0
    /\ \E apri \in DOMAIN call.result.val : apri \notin DOMAIN call.args[2]

\* C7: A + B is a Collection whose keys are those of A and those of B; a key
\* of both has the pointwise sum, a key of one has that operand's vector.
C7_AddIsUnionOfSums ==
    call.op = "Collection.__add__"
        => LET A == call.args[1]
               B == call.args[2]
               R == call.result
           IN  /\ DOMAIN R = DOMAIN A \cup DOMAIN B
               /\ \A apri \in DOMAIN A \cap DOMAIN B :
                     \A game \in GameSet : R[apri][game] = A[apri][game] + B[apri][game]
               /\ \A apri \in DOMAIN A \ DOMAIN B : R[apri] = A[apri]
               /\ \A apri \in DOMAIN B \ DOMAIN A : R[apri] = B[apri]

\* C7 witness: {Beast Togepi: swsh1=2} + {Beast Togepi: swsh1=1, sv1=3} is
\* {Beast Togepi: swsh1=3, sv1=3}.
C7_Witness ==
    /\ call.op = "Collection.__add__"
    /\ call.args[1] = (Togepi :> Quantity("SWSH1" :> 2))
    /\ call.args[2] = (Togepi :> Quantity(("SWSH1" :> 1) @@ ("SV1" :> 3)))
    /\ call.result = (Togepi :> Quantity(("SWSH1" :> 3) @@ ("SV1" :> 3)))

\* C8: when b <= a in every game, a - b succeeds and (a - b) + b = a.
C8_SubThenAddIsIdentity ==
    (call.op = "Quantity.__sub__ then __add__"
        /\ \A game \in GameSet : call.args[2][game] <= call.args[1][game])
        => (call.result.ok /\ call.result.val = call.args[1])

\* C8 witness: b <= a with b non-zero and different from a.
C8_Witness ==
    /\ call.op = "Quantity.__sub__ then __add__"
    /\ \A game \in GameSet : call.args[2][game] <= call.args[1][game]
    /\ \E game \in GameSet : call.args[2][game] > 0
    /\ \E game \in GameSet : call.args[2][game] < call.args[1][game]
    /\ call.result.ok
    /\ call.result.val = call.args[1]

\* C9: decoding the encoded row of any Aprimon, Quantity and row number gives
\* back exactly that Aprimon and that Quantity.
C9_DecodeOfEncodeIsIdentity ==
    call.op = "make_gsheet_row then parse_gsheet_row"
        => (call.result.ok /\ call.result.val = <<call.args[1], call.args[2]>>)

\* the cells of the used rows of the worksheet below the header
DataRows(grid) ==
    [i \in 1..(LastUsedRow(grid, Len(grid)) - N_HEADER_ROWS) |-> grid[N_HEADER_ROWS + i].cells]

RECURSIVE DecodedRows(_, _)
\* what the rows n, n + 1, ... decode to
DecodedRows(rows, n) ==
    IF n > Len(rows) THEN <<>>
    ELSE <<parse_apri_qty_from_gsheet_row(rows[n]).val>> \o DecodedRows(rows, n + 1)

RECURSIVE RowSum(_, _, _, _)
\* the sum of the counts for game over the decoded rows n, n + 1, ... of apri
RowSum(decoded, apri, game, n) ==
    IF n > Len(decoded) THEN 0
    ELSE (IF decoded[n][1] = apri THEN decoded[n][2][game] ELSE 0)
         + RowSum(decoded, apri, game, n + 1)

\* C10: the Collection that from_sheet returns has one entry for each Aprimon
\* that a data row decodes to, and its vector is the pointwise sum of the
\* vectors of all the rows decoding to that Aprimon.
C10_ReadSumsRowsOfAnAprimon ==
    pc \in {"read", "combined", "counted"}
        => LET decoded == DecodedRows(DataRows(sheet), 1)
           IN  /\ DOMAIN c = {decoded[n][1] : n \in 1..Len(decoded)}
               /\ \A apri \in DOMAIN c : \A game \in GameSet :
                     c[apri][game] = RowSum(decoded, apri, game, 1)

\* C10 witness: two data rows decode to the same Aprimon and the entry read
\* holds the sum of both.
C10_Witness ==
    /\ pc = "read"
    /\ LET rows == DataRows(sheet)
       IN  /\ Len(rows) = 2
           /\ rows[1][SPECIES_COL + 1] # rows[2][SPECIES_COL + 1]
           /\ IsInt(rows[1][SWSH1_COL + 1]) /\ IsInt(rows[2][SWSH1_COL + 1])
           /\ Cardinality(DOMAIN c) = 1
           /\ \E apri \in DOMAIN c :
                 c[apri]["SWSH1"] = IntValue(rows[1][SWSH1_COL + 1]) + IntValue(rows[2][SWSH1_COL + 1])

\* the worksheet calls that change the worksheet
MutatingCalls == {"insert_rows", "delete_rows", "batch_update", "format"}

\* the errors of parsing and validation, by the text of their message
ValidationErrors ==
    { "not enough values to unpack",
      "Could not parse line into Aprimon and quantity",
      "Could not parse ball",
      "Could not parse game",
      "Could not parse quantity",
      "string index out of range",
      "was not present in first spreadsheet",
      "would have negative quantity" }

\* C11: when add or rm ends with an error of parsing or validation (of a
\* line, of a ball, of a game tag, of a quantity, of a cell of the worksheet,
\* of a key missing from the worksheet, of a count that would go negative), no
\* insert_rows, delete_rows, batch_update or format has been issued and the
\* worksheet is as it was when the command started.
C11_FailureLeavesSheetUntouched ==
    (pc = "failed" /\ error.what \in ValidationErrors)
        => /\ sheet = sheet0
           /\ \A i \in 1..Len(requests) : requests[i] \notin MutatingCalls

\* C11 witness: rm fails on a count that would go negative, after the
\* worksheet with its data rows has been read.
C11_Witness ==
    /\ pc = "failed"
    /\ command = "rm"
    /\ error.what = "would have negative quantity"
    /\ requests = <<"get_values">>
    /\ Len(sheet) > N_HEADER_ROWS
    /\ sheet = sheet0

\* the position of a ball name in the declared order of the enum, 0 if none
BallIndex(name) ==
    IF \E i \in 1..11 : Ball[i] = name THEN CHOOSE i \in 1..11 : Ball[i] = name ELSE 0

\* the total order of identities: the ball's declared index, then the species
IdentityLess(ball1, species1, ball2, species2) ==
    \/ BallIndex(ball1) < BallIndex(ball2)
    \/ BallIndex(ball1) = BallIndex(ball2) /\ StrLess(species1, species2)

\* C12: the rows that _to_sheet_values gives are as many as the non-zero
\* entries, and the identities they hold (ball cell, species cell) are in
\* strictly ascending order (declared index of the ball, then species); and
\* the comparison of the balls' names agrees with their declared indices.
C12_RowsAscendByIdentity ==
    call.op = "Collection._to_sheet_values"
        => LET C == call.args[1]
               rows == call.result
               nonzero == {apri \in DOMAIN C : \E game \in GameSet : C[apri][game] # 0}
           IN  /\ Len(rows) = Cardinality(nonzero)
               /\ \A i \in 1..(Len(rows) - 1) :
                     IdentityLess(rows[i][BALL_COL + 1], rows[i][SPECIES_COL + 1],
                                  rows[i + 1][BALL_COL + 1], rows[i + 1][SPECIES_COL + 1])
               /\ \A i, j \in 1..11 : StrLess(Ball[i], Ball[j]) <=> i < j

\* the 11 ball names in lower case
LowerBallNames ==
    <<"beast", "dream", "fast", "friend", "heavy", "level", "love", "lure",
      "moon", "safari", "sport">>

\* C13: parse_ball(s) returns a ball iff s, case ignored, is a prefix of
\* exactly one of the 11 ball names, and then it returns that ball; with no
\* match or with several it raises.  parse_ball("b") is Beast,
\* parse_ball("fr") is Friend, parse_ball("s") raises.
C13_ParseBallNeedsOneMatch ==
    call.op = "parse_ball"
        => LET s == call.args[1]
               matches == {i \in 1..11 :
                              /\ Len(s) <= Len(LowerBallNames[i])
                              /\ SubSeq(LowerBallNames[i], 1, Len(s)) = Lower(s)}
           IN  /\ call.result.ok <=> Cardinality(matches) = 1
               /\ call.result.ok => \A i \in matches : call.result.val = Ball[i]
               /\ ~call.result.ok => call.result.err.what = "Could not parse ball"
               /\ s = "b" => call.result = Ok("Beast")
               /\ s = "fr" => call.result = Ok("Friend")
               /\ s = "s" => ~call.result.ok

\* C13 witness: "FR" is a prefix of Friend alone and gives Friend.
C13_Witness ==
    /\ call.op = "parse_ball"
    /\ call.args = <<"FR">>
    /\ call.result = Ok("Friend")

\* C14: for every species name x that canonicalise accepts,
\* canonicalise(canonicalise(x)) = canonicalise(x).
C14_CanonicaliseIsIdempotent ==
    call.op = "canonicalise" => call.result[2] = call.result[1]

\* the cells of a grid, row by row
Cells(grid) == [n \in 1..Len(grid) |-> grid[n].cells]

\* the cells of the worksheet after to_sheet has written entries to grid
Written(grid, entries) ==
    Cells(batch_update(Resized(grid, entries, Len(get_values(grid, 1))),
                       N_HEADER_ROWS + 1, to_sheet_values(entries)))

\* C15: when another writer edits the worksheet between from_sheet and
\* to_sheet, the run raises no error because of it (it can only fail in the
\* subtraction, on what it read), and when it is done the cells of the
\* worksheet are those that writing the same Collection to the worksheet as
\* it was read would have given: nothing of the edit is left.
C15_ExternalEditIsLost ==
    external # NoEdit
        => /\ pc = "failed" => Raise(error) \in CollectionSub(c, c_arg)
           /\ pc = "done" => /\ Ok(c) = from_sheet(sheet0)
                             /\ Cells(sheet) = Written(sheet0, c_new)

\* the step of to_sheet that a worksheet call belongs to
WriteStep(request) ==
    IF request \in {"insert_rows", "delete_rows"} THEN 1
    ELSE IF request = "batch_update" THEN 2
    ELSE 3

\* C16: of the calls of to_sheet that change the worksheet, the insert_rows or
\* delete_rows comes first, then one batch_update, then the format, each at
\* most once; the batch_update has been issued exactly once when the values
\* are written, after the rows were adjusted whenever the number of rows had
\* to change, and the format is issued only then.
C16_ResizeThenOneUpdateThenFormat ==
    LET w == SelectSeq(requests, LAMBDA r : r \in MutatingCalls)
        updates == {i \in 1..Len(w) : w[i] = "batch_update"}
        resizes == {i \in 1..Len(w) : w[i] \in {"insert_rows", "delete_rows"}}
    IN  /\ \A i, j \in 1..Len(w) : i < j => WriteStep(w[i]) < WriteStep(w[j])
        /\ pc \in {"updated", "done"} <=> Cardinality(updates) = 1
        /\ pc \in {"updated", "done"} /\ nrows # Cardinality(DOMAIN c_new) + N_HEADER_ROWS
              => resizes = {1} /\ updates = {2}
        /\ pc = "done" <=> (Len(w) > 0 /\ w[Len(w)] = "format")
        /\ pc \in {"start", "parsed", "read", "combined", "counted", "nothing"} => w = <<>>

\* C16 witness: a write that deleted rows, then updated, then formatted.
C16_Witness ==
    /\ pc = "done"
    /\ requests = <<"get_values", "get_values", "delete_rows", "batch_update", "format">>
    /\ Len(sheet) < Len(sheet0)

\* C17: once a worksheet call of to_sheet has raised, the run issues no
\* further call and changes the worksheet no more: no retry, no rollback.
C17_NoCallAfterFailure ==
    [][pc = "failed" => (requests' = requests /\ sheet' = sheet /\ pc' = "failed")]_vars

\* C17 witness: batch_update raised after rows were inserted, leaving a
\* worksheet with more rows than it has rows of values.
C17_Witness ==
    /\ pc = "failed"
    /\ error = APIError("batch_update")
    /\ requests = <<"get_values", "get_values", "insert_rows", "batch_update">>
    /\ Len(sheet) > Len(sheet0)
    /\ Len(sheet) > N_HEADER_ROWS + Len(DataRows(sheet))
    /\ Len(to_sheet_values(c_new)) > Len(DataRows(sheet))

\* C17, the other state: format raised after the values were written, leaving
\* a written row without the border style.
C17_WitnessNoBorder ==
    /\ pc = "failed"
    /\ error = APIError("format")
    /\ Cells(sheet) = Written(sheet0, c_new)
    /\ \E n \in (N_HEADER_ROWS + 1)..Len(sheet) : ~IsBlank(sheet[n].cells) /\ ~sheet[n].border

\* the six formula cells of a row whose formulas refer to sheet row n
FormulasOfRow(n) ==
    << "=VLOOKUP(A" \o Str(n) \o ", Backend!$AD$4:$AE$20, 2)",
       "=VLOOKUP(B" \o Str(n) \o ", Backend!$A$4:$V, Backend!$C$2)",
       "=SUM($J" \o Str(n) \o ":$N" \o Str(n) \o ")",
       "=VLOOKUP($B" \o Str(n) \o ", Backend!$A$4:$V, Backend!S$2)",
       "=VLOOKUP($B" \o Str(n) \o ", Backend!$A$4:$V, Backend!U$2)",
       "=VLOOKUP($B" \o Str(n) \o ", Backend!$A$4:$V, Backend!V$2)" >>

\* C18: once the values are written, the i-th row of _to_sheet_values is
\* stored in sheet row N_HEADER_ROWS + i, it holds the i-th non-zero entry in
\* sorted order (its ball, its species as the encoder writes it, its counts),
\* and its six formula cells refer to sheet row N_HEADER_ROWS + i.
C18_FormulasReferToOwnRow ==
    pc \in {"updated", "done"}
        => LET written == SortedApris({a \in DOMAIN c_new : ~is_empty(c_new[a])})
           IN  \A i \in 1..Len(written) :
                  LET n == N_HEADER_ROWS + i
                      cells == sheet[n].cells
                  IN  /\ cells[BALL_COL + 1] = written[i].ball
                      /\ cells[SPECIES_COL + 1] = canonicalise(written[i].species)
                      /\ \A k \in 1..5 :
                            cells[SWSH1_COL + k] =
                                (IF c_new[written[i]][DeclaredGames[k]] = 0 THEN ""
                                 ELSE Str(c_new[written[i]][DeclaredGames[k]]))
                      /\ SubSeq(cells, 3, 8) = FormulasOfRow(n)

\* C18 witness: two rows were written, the second in sheet row 5 with its
\* sum over J5:N5.
C18_Witness ==
    /\ pc = "done"
    /\ Cardinality({a \in DOMAIN c_new : ~is_empty(c_new[a])}) = 2
    /\ sheet[N_HEADER_ROWS + 2].cells[5] = "=SUM($J5:$N5)"
    /\ sheet[N_HEADER_ROWS + 2].cells[BALL_COL + 1] = "Dream"

\* C19: when to_sheet has written a Collection with no negative count, reading
\* the worksheet again gives that Collection without its all-zero entries,
\* whatever the worksheet held before.  (Stated here for the runs in which no
\* Collection holds a negative count.)
C19_ReadAfterWriteIsPruned ==
    (pc = "done" /\ NonNegative(c_new) /\ NonNegative(c) /\ NonNegative(c_arg))
        => LET r == from_sheet(sheet)
           IN  r.ok /\ r.val = NonZeroEntries(c_new)

====
